---------------------------- MODULE Spec2Model ----------------------------
(***************************************************************************)
(* A model of the celebrity recognition and compositing pipeline           *)
(* (backend/app/ml/pipeline.py, class CelebrityPipeline).                  *)
(*                                                                         *)
(* Conventions                                                             *)
(*  - Distances, tolerances and confidences are fixed-point numbers in     *)
(*    tenths: One = 10 stands for the literal 1.0, DefaultTolerance = 6    *)
(*    for 0.6.                                                             *)
(*  - A face embedding is a point on a line, so that the Euclidean         *)
(*    distance of face_recognition.face_distance is exactly |a - b|.       *)
(*  - The gallery (a dict, iterated in insertion order) is a sequence of   *)
(*    records; the i-th inserted key is CelebId(i).                        *)
(*  - A hex colour string is a record [hash, lower, digits]: whether it   *)
(*    starts with '#', whether its letters are lower case, and its six     *)
(*    hexadecimal digits as numbers 0..15.                                 *)
(*  - An image buffer lives in heap; heap[i] is the object with identity i *)
(*    and holds [order, w, h, pix]: channel order, size and contents.      *)
(*  - The specifications of the pipeline object leave the web service of   *)
(*    main.py out (ServiceOff); SpecService models that service and leaves *)
(*    the contents of images out.                                          *)
(***************************************************************************)
EXTENDS Integers, Sequences, FiniteSets, TLC

VARIABLES celebrity_db, call, ret, heap, events,
          phase, pipeline, constructions, requests, running

\* The state of one CelebrityPipeline object and of the call made on it.
pipe_vars == <<celebrity_db, call, ret, heap, events>>

\* The state of the web service of main.py.
service_vars == <<phase, pipeline, constructions, requests, running>>

vars == <<celebrity_db, call, ret, heap, events,
          phase, pipeline, constructions, requests, running>>

(***************************************************************************)
(* Bounds of the model                                                     *)
(***************************************************************************)
MaxGallery == 2
MaxEnc == 12
MaxTol == 12
MaxW == 5
MaxH == 10
MaxGradH == 6
MaxGradW == 2
MaxPipeGallery == 1
MaxPipeEnc == 1
MaxFaces == 2
MaxCrowd == 12

(***************************************************************************)
(* Generic helpers                                                         *)
(***************************************************************************)
Abs(x) == IF x < 0 THEN -x ELSE x

Min(a, b) == IF a < b THEN a ELSE b

Max(a, b) == IF a > b THEN a ELSE b

SeqsUpTo(S, n) == UNION { [1..k -> S] : k \in 0..n }

None == [kind |-> "None"]

Idle == [op |-> "idle"]

\* main.py is not loaded: the pipeline object is used on its own.
ServiceOff ==
    /\ phase = "off"
    /\ pipeline = None
    /\ constructions = 0
    /\ requests = <<>>
    /\ running = 0

(***************************************************************************)
(* Matcher: CelebrityPipeline._match_face                                  *)
(***************************************************************************)
One == 10

DefaultTolerance == 6

CelebId(i) == <<"celeb", i>>

CelebName(i) == <<"name", i>>

Record(i, enc) == [celeb_id |-> CelebId(i), name |-> CelebName(i), encoding |-> enc]

Galleries(maxLen, maxEnc) ==
    { [i \in 1..Len(es) |-> Record(i, es[i])] : es \in SeqsUpTo(0..maxEnc, maxLen) }

face_distance(known, face_encoding) == Abs(known - face_encoding)

CloserOrEqual(distance, best_distance) == distance <= best_distance

Closer(distance, best_distance) == distance < best_distance

DistanceItself(distance) == distance

Confidence(distance) == One - distance

InitialBestUnbounded(tolerance) == MaxEnc + 1

InitialBest(tolerance) == tolerance

RECURSIVE MatchScan(_, _, _, _, _)
MatchScan(db, i, face_encoding, best_distance, best_match) ==
    IF i > Len(db) THEN best_match
    ELSE LET distance == face_distance(db[i].encoding, face_encoding)
         IN  IF Closer(distance, best_distance)
             THEN MatchScan(db, i + 1, face_encoding, distance,
                            [kind |-> "match", celeb_id |-> db[i].celeb_id,
                             name |-> db[i].name,
                             confidence |-> Confidence(distance)])
             ELSE MatchScan(db, i + 1, face_encoding, best_distance, best_match)

Consumed(db) == <<>>

\* self.celebrity_db after a call of a pipeline method: the only access to it
\* is the iteration over self.celebrity_db.items() in _match_face.
AfterItems(db) == db

_match_face(db, face_encoding, tolerance) ==
    MatchScan(db, 1, face_encoding, InitialBest(tolerance), None)

(***************************************************************************)
(* SpecMatch: the gallery is any gallery within the bounds; each step is   *)
(* one call of _match_face with any embedding and tolerance, or the        *)
(* caller taking the result.                                               *)
(***************************************************************************)
InitMatch ==
    /\ celebrity_db \in Galleries(MaxGallery, MaxEnc)
    /\ call = Idle
    /\ ret = None
    /\ heap = <<>>
    /\ events = <<>>
    /\ ServiceOff

CallMatchFace ==
    /\ call = Idle
    /\ \E face_encoding \in 0..MaxEnc, tolerance \in 0..MaxTol :
          /\ call' = [op |-> "_match_face", face_encoding |-> face_encoding,
                      tolerance |-> tolerance]
          /\ ret' = _match_face(celebrity_db, face_encoding, tolerance)
    /\ celebrity_db' = AfterItems(celebrity_db)
    /\ UNCHANGED <<heap, events>>
    /\ UNCHANGED service_vars

Return ==
    /\ call # Idle
    /\ call' = Idle
    /\ ret' = None
    /\ heap' = <<>>
    /\ events' = <<>>
    /\ UNCHANGED celebrity_db
    /\ UNCHANGED service_vars

NextMatch == CallMatchFace \/ Return

SpecMatch == InitMatch /\ [][NextMatch]_vars

(***************************************************************************)
(* Vocabulary of the matcher claims                                        *)
(***************************************************************************)
MatchCalled == call.op = "_match_face"

DistanceTo(i) == face_distance(celebrity_db[i].encoding, call.face_encoding)

Indices == 1..Len(celebrity_db)

Qualifying == { i \in Indices : DistanceTo(i) < call.tolerance }

\* C1: _match_face returns None whenever every gallery record is at a
\* distance >= tolerance from the embedding (equality and the empty gallery
\* included).
C1_NoMatchBeyondTolerance ==
    (MatchCalled /\ \A i \in Indices : DistanceTo(i) >= call.tolerance)
        => ret = None

C1_Witness ==
    /\ MatchCalled
    /\ Len(celebrity_db) > 0
    /\ \A i \in Indices : DistanceTo(i) >= call.tolerance
    /\ \E i \in Indices : DistanceTo(i) = call.tolerance
    /\ ret = None

\* C2: when some record is nearer than tolerance, _match_face returns the
\* first record (in gallery order) among those at the minimum distance, with
\* confidence 1 - that distance.
C2_NearestFirstWins ==
    (MatchCalled /\ Qualifying # {}) =>
        \E i \in Indices :
            /\ \A j \in Indices : DistanceTo(i) <= DistanceTo(j)
            /\ \A j \in 1..(i - 1) : DistanceTo(j) > DistanceTo(i)
            /\ ret = [kind |-> "match", celeb_id |-> CelebId(i),
                      name |-> CelebName(i), confidence |-> One - DistanceTo(i)]

C2_Witness ==
    /\ MatchCalled
    /\ \E i, j \in Qualifying :
          /\ i < j
          /\ DistanceTo(i) = DistanceTo(j)
          /\ DistanceTo(i) > 0
          /\ \A k \in Indices : DistanceTo(k) >= DistanceTo(i)
          /\ ret.kind = "match" /\ ret.celeb_id = CelebId(i)

FirstEqual == { i \in Indices : /\ DistanceTo(i) = 0
                                /\ \A j \in 1..(i - 1) : DistanceTo(j) # 0 }

IdentityWithFullConfidence(i) ==
    [kind |-> "match", celeb_id |-> CelebId(i), name |-> CelebName(i),
     confidence |-> One]

\* C3 (as claimed): for every record r of the gallery, a call with an
\* embedding equal to r's embedding (and a positive tolerance) returns r's
\* identity with confidence 1.0.
C3_Original ==
    (MatchCalled /\ call.tolerance > 0) =>
        \A i \in Indices :
            DistanceTo(i) = 0 => ret = IdentityWithFullConfidence(i)

\* C3 (amended): with a positive tolerance, a call with an embedding equal to
\* the embedding of some record returns, with confidence 1.0, the identity of
\* the first record in gallery order that has this embedding; this is r
\* itself exactly when no earlier record shares r's embedding.
C3_FirstEqualRecordWins ==
    (MatchCalled /\ call.tolerance > 0) =>
        \A i \in FirstEqual : ret = IdentityWithFullConfidence(i)

C3_Witness ==
    /\ MatchCalled
    /\ call.tolerance > 0
    /\ \E i \in FirstEqual :
          /\ \E j \in Indices : j > i /\ DistanceTo(j) = 0
          /\ ret = IdentityWithFullConfidence(i)

\* C4 (as claimed): for every gallery, embedding and tolerance, a returned
\* match has confidence in [0, 1], and confidence strictly grows as distance
\* strictly shrinks.
C4_Original ==
    /\ (MatchCalled /\ ret # None) =>
           (0 <= ret.confidence /\ ret.confidence <= One)
    /\ \A d1, d2 \in 0..MaxEnc : d1 < d2 => Confidence(d1) > Confidence(d2)

C4_Witness ==
    /\ MatchCalled
    /\ call.tolerance > One
    /\ ret # None
    /\ ret.confidence < 0

(***************************************************************************)
(* Region Estimator and Mask Adapter: _segment_person and                  *)
(* _segment_person_high_quality                                            *)
(*                                                                         *)
(* A face_location is a record [top, right, bottom, left].  PyInt(n, d) is *)
(* Python's int() of the quotient n/d: truncation toward zero.  For the    *)
(* factors used here (0.5, 0.8, 1.5, 6, 8) and every integer below 20000   *)
(* the double-precision product truncates to the same integer.             *)
(***************************************************************************)
PyInt(n, d) == IF n >= 0 THEN n \div d ELSE -((-n) \div d)

FaceLocation(top, right, bottom, left) ==
    [top |-> top, right |-> right, bottom |-> bottom, left |-> left]

BodyBox(w, h, loc) ==
    LET face_width == loc.right - loc.left
        face_height == loc.bottom - loc.top
    IN  << Max(0, loc.left - face_width),
           Max(0, loc.top - PyInt(face_height * 5, 10)),
           Min(w, loc.right + face_width),
           Min(h, loc.bottom + PyInt(face_height * 6, 1)) >>

UnclampedCropBox(w, h, loc) ==
    LET face_width == loc.right - loc.left
        face_height == loc.bottom - loc.top
    IN  << loc.left - PyInt(face_width * 15, 10),
           loc.top - PyInt(face_height * 8, 10),
           loc.right + PyInt(face_width * 15, 10),
           loc.bottom + PyInt(face_height * 8, 1) >>

CropBox(w, h, loc) ==
    LET face_width == loc.right - loc.left
        face_height == loc.bottom - loc.top
    IN  << Max(0, loc.left - PyInt(face_width * 15, 10)),
           Max(0, loc.top - PyInt(face_height * 8, 10)),
           Min(w, loc.right + PyInt(face_width * 15, 10)),
           Min(h, loc.bottom + PyInt(face_height * 8, 1)) >>

BoxWidth(box) == box[3] - box[1]

BoxHeight(box) == box[4] - box[2]

\* What the segmenter (rembg.remove) can answer: an RGBA image (4 channels),
\* a 3-channel image, or a 2-dimensional single-channel image.
SegResponses == {"RGBA", "RGB", "L"}

SegmentEvent(mode, box) == [ev |-> "segment", mode |-> mode, crop |-> box]

\* _segment_person: crop, one mask-only segmenter call, paste into a
\* zero-initialised full-size mask.  person tells whether the segmenter found
\* any foreground in the crop.
_segment_person(w, h, loc, person) ==
    LET box == BodyBox(w, h, loc)
    IN  [status |-> "ok",
         mask |-> [w |-> w, h |-> h, box |-> box, person |-> person],
         events |-> << SegmentEvent("only_mask", box) >>]

\* _segment_person_high_quality: crop, one alpha-matting segmenter call; the
\* 4th channel of a 4-channel answer is the alpha, result_np.shape[2] of a
\* 2-dimensional answer raises IndexError, any other answer makes a second,
\* mask-only call.
_segment_person_high_quality(w, h, loc, response, person) ==
    LET box == CropBox(w, h, loc)
        alpha == [w |-> BoxWidth(box), h |-> BoxHeight(box), box |-> box,
                  person |-> person]
    IN  CASE response = "RGBA" ->
               [status |-> "ok", alpha |-> alpha, crop_box |-> box,
                events |-> << SegmentEvent("alpha_matting", box) >>]
          [] response = "L" ->
               [status |-> "IndexError",
                events |-> << SegmentEvent("alpha_matting", box) >>]
          [] OTHER ->
               [status |-> "ok", alpha |-> alpha, crop_box |-> box,
                events |-> << SegmentEvent("alpha_matting", box),
                              SegmentEvent("only_mask", box) >>]

(***************************************************************************)
(* SpecRegion: an image of any size within the bounds and a face rectangle *)
(* fully inside it (what the detector produces), handed to either          *)
(* estimator.                                                              *)
(***************************************************************************)
FacesInside(w, h) ==
    { FaceLocation(t, r, b, l) : t \in 0..(h - 1), r \in 1..w, b \in 1..h, l \in 0..(w - 1) }

InsideImage(w, h, loc) ==
    /\ 0 <= loc.left /\ loc.left < loc.right /\ loc.right <= w
    /\ 0 <= loc.top /\ loc.top < loc.bottom /\ loc.bottom <= h

InitRegion ==
    /\ celebrity_db = <<>>
    /\ call = Idle
    /\ ret = None
    /\ heap = <<>>
    /\ events = <<>>
    /\ ServiceOff

CallSegmentPerson ==
    /\ call = Idle
    /\ \E w \in 1..MaxW, h \in 1..MaxH, person \in BOOLEAN :
         \E loc \in { f \in FacesInside(w, h) : InsideImage(w, h, f) } :
            LET r == _segment_person(w, h, loc, person)
            IN  /\ call' = [op |-> "_segment_person", w |-> w, h |-> h,
                            face_location |-> loc]
                /\ ret' = [status |-> r.status, box |-> r.mask.box,
                           mask |-> r.mask]
                /\ events' = r.events
    /\ UNCHANGED <<celebrity_db, heap>>
    /\ UNCHANGED service_vars

CallSegmentPersonHighQuality ==
    /\ call = Idle
    /\ \E w \in 1..MaxW, h \in 1..MaxH, person \in BOOLEAN,
          response \in SegResponses :
         \E loc \in { f \in FacesInside(w, h) : InsideImage(w, h, f) } :
            LET r == _segment_person_high_quality(w, h, loc, response, person)
            IN  /\ call' = [op |-> "_segment_person_high_quality", w |-> w,
                            h |-> h, face_location |-> loc,
                            response |-> response]
                /\ ret' = IF r.status = "ok"
                          THEN [status |-> "ok", box |-> r.crop_box,
                                mask |-> r.alpha]
                          ELSE [status |-> r.status,
                                box |-> CropBox(w, h, loc)]
                /\ events' = r.events
    /\ UNCHANGED <<celebrity_db, heap>>
    /\ UNCHANGED service_vars

MaxOutside == 3

MaxBox == 2

\* The face rectangles of a /cutout request: form fields face_x, face_y,
\* face_width, face_height, not checked against the image.
FormBoxes(w, h) ==
    { [x |-> x, y |-> y, width |-> width, height |-> height] :
        x \in (0 - MaxOutside)..(w + MaxOutside),
        y \in (0 - MaxOutside)..(h + MaxOutside),
        width \in 1..MaxBox, height \in 1..MaxBox }

\* face_location = (y, x + width, y + height, x)
BoxLocation(face_box) ==
    FaceLocation(face_box.y, face_box.x + face_box.width,
                 face_box.y + face_box.height, face_box.x)

\* generate_cutout up to the crop rectangle of its segmentation.
CallSegmentForCutout ==
    /\ call = Idle
    /\ \E w \in 1..MaxW, h \in 1..MaxH :
         \E face_box \in FormBoxes(w, h) :
            LET loc == BoxLocation(face_box)
                r == _segment_person_high_quality(w, h, loc, "RGBA", TRUE)
            IN  /\ call' = [op |-> "_segment_person_high_quality", w |-> w,
                            h |-> h, face_location |-> loc,
                            response |-> "RGBA"]
                /\ ret' = [status |-> r.status, box |-> r.crop_box,
                           mask |-> r.alpha]
                /\ events' = r.events
    /\ UNCHANGED <<celebrity_db, heap>>
    /\ UNCHANGED service_vars

NextRegion ==
    \/ CallSegmentPerson \/ CallSegmentPersonHighQuality
    \/ CallSegmentForCutout
    \/ Return

SpecRegion == InitRegion /\ [][NextRegion]_vars

EstimatorCalled ==
    call.op \in {"_segment_person", "_segment_person_high_quality"}

\* C6: for a face rectangle fully inside a w x h image, the crop rectangle of
\* both estimators satisfies 0 <= x1 < x2 <= w and 0 <= y1 < y2 <= h.
C6_CropInsideImage ==
    (EstimatorCalled /\ InsideImage(call.w, call.h, call.face_location)) =>
        /\ 0 <= ret.box[1] /\ ret.box[1] < ret.box[3] /\ ret.box[3] <= call.w
        /\ 0 <= ret.box[2] /\ ret.box[2] < ret.box[4] /\ ret.box[4] <= call.h

\* A high-quality call whose raw expansion leaves the image on the left and
\* at the bottom (both clamped) and stays inside it on the right.
C6_Witness ==
    /\ call.op = "_segment_person_high_quality"
    /\ InsideImage(call.w, call.h, call.face_location)
    /\ UnclampedCropBox(call.w, call.h, call.face_location)[1] < 0
    /\ UnclampedCropBox(call.w, call.h, call.face_location)[3] < call.w
    /\ UnclampedCropBox(call.w, call.h, call.face_location)[4] > call.h
    /\ ret.box[1] = 0
    /\ ret.box[3] < call.w
    /\ ret.box[4] = call.h

PositiveSize(loc) == loc.left < loc.right /\ loc.top < loc.bottom

\* C17: for any face rectangle with positive width and height supplied to
\* generate_cutout, also one lying partly or wholly outside the image, the
\* high-quality crop rectangle satisfies 0 <= x1 < x2 <= width and
\* 0 <= y1 < y2 <= height.
C17_Original ==
    (call.op = "_segment_person_high_quality"
        /\ PositiveSize(call.face_location)) =>
        /\ 0 <= ret.box[1] /\ ret.box[1] < ret.box[3] /\ ret.box[3] <= call.w
        /\ 0 <= ret.box[2] /\ ret.box[2] < ret.box[4] /\ ret.box[4] <= call.h

\* A face rectangle wholly to the left of the image: the crop rectangle
\* ends left of where it starts.
C17_Witness ==
    /\ call.op = "_segment_person_high_quality"
    /\ PositiveSize(call.face_location)
    /\ call.face_location.right < 0
    /\ ret.box[1] = 0
    /\ ret.box[3] < 0

HighQualityCalled == call.op = "_segment_person_high_quality"

SegmentCalls(mode) ==
    { i \in 1..Len(events) :
        events[i].ev = "segment" /\ events[i].mode = mode }

\* C11: in the high-quality mask path a segmenter response that is neither
\* a 4-channel image nor a mask-only result is rejected with an explicit
\* error, and no alpha mask is derived from it or from a further call.
C11_Original ==
    (HighQualityCalled /\ call.response \notin {"RGBA", "L"}) =>
        /\ ret.status # "ok"
        /\ SegmentCalls("only_mask") = {}

\* A 3-channel answer to the alpha-matting call, after which the estimator
\* returns normally with the mask of a second, mask-only call.
C11_Witness ==
    /\ HighQualityCalled
    /\ call.response = "RGB"
    /\ ret.status = "ok"
    /\ SegmentCalls("alpha_matting") # {}
    /\ SegmentCalls("only_mask") # {}

(***************************************************************************)
(* Colours: COLORS, B99_BACKGROUNDS, _hex_to_rgb, _hex_to_bgr              *)
(*                                                                         *)
(* A hex colour string is [hash, lower, digits]: whether it starts with    *)
(* '#', whether its letters are lower case, and its six hexadecimal        *)
(* digits.  A colour tuple is [order, ch]: the function that built it      *)
(* fixes the order of its three channels.                                  *)
(***************************************************************************)
COLORS ==
    << <<15, 15, 6, 11, 6, 11>>,
       <<4, 14, 12, 13, 12, 4>>,
       <<15, 15, 14, 6, 6, 13>>,
       <<9, 5, 14, 1, 13, 3>>,
       <<15, 3, 8, 1, 8, 1>>,
       <<10, 10, 9, 6, 13, 10>>,
       <<15, 12, 11, 10, 13, 3>>,
       <<10, 8, 13, 8, 14, 10>>,
       <<15, 15, 9, 15, 4, 3>>,
       <<6, 12, 5, 12, 14, 7>> >>

B99_BACKGROUNDS ==
    << << <<20, 20, 40>>, <<180, 60, 60>> >>,
       << <<20, 30, 30>>, <<60, 160, 150>> >>,
       << <<30, 25, 15>>, <<200, 180, 80>> >>,
       << <<15, 30, 25>>, <<120, 180, 170>> >>,
       << <<25, 15, 20>>, <<190, 100, 100>> >>,
       << <<25, 20, 35>>, <<140, 120, 180>> >>,
       << <<30, 20, 25>>, <<200, 150, 170>> >>,
       << <<15, 25, 35>>, <<130, 170, 190>> >>,
       << <<30, 20, 10>>, <<200, 130, 50>> >>,
       << <<20, 15, 35>>, <<90, 75, 190>> >> >>

HexColor(hash, lower, digits) ==
    [hash |-> hash, lower |-> lower, digits |-> digits]

PaletteColor(i) == HexColor(TRUE, FALSE, COLORS[i])

HexPair(digits, i) == 16 * digits[i] + digits[i + 1]

_hex_to_rgb(color_hex) ==
    [order |-> "RGB",
     ch |-> << HexPair(color_hex.digits, 1), HexPair(color_hex.digits, 3),
               HexPair(color_hex.digits, 5) >>]

_hex_to_bgr(color_hex) ==
    LET rgb == _hex_to_rgb(color_hex).ch
    IN  [order |-> "BGR", ch |-> << rgb[3], rgb[2], rgb[1] >>]

(***************************************************************************)
(* Gradient synthesis: _create_gradient_background                         *)
(*                                                                         *)
(* A row value is int(c1 * (1 - ratio) + c2 * ratio) with ratio = y/height *)
(* in double precision.  Its exact value is InterpolateNum / height.  At   *)
(* y = 0 the computation is exact.  Elsewhere, when the exact value is an  *)
(* integer n, the rounded sum may lie just below n and truncate to n - 1   *)
(* (it does for c1 = c2 = 20, height = 42, y = 1); which of the two the    *)
(* build produces is left open.  A non-integer exact value is at least     *)
(* 1/height away from an integer and truncates to its floor.               *)
(***************************************************************************)
FallbackAnchor == <<20, 20, 30>>

InB99(color_hex) ==
    /\ ~color_hex.lower
    /\ \E i \in 1..Len(COLORS) : COLORS[i] = color_hex.digits

Anchors(color_hex) ==
    IF InB99(color_hex)
    THEN B99_BACKGROUNDS[CHOOSE i \in 1..Len(COLORS) : COLORS[i] = color_hex.digits]
    ELSE << FallbackAnchor, _hex_to_rgb(color_hex).ch >>

InterpolateSwapped(c1, c2, y, height) == c2 * (height - y) + c1 * y

InterpolateNum(c1, c2, y, height) == c1 * (height - y) + c2 * y

RowValues(c1, c2, y, height) ==
    LET num == InterpolateNum(c1, c2, y, height)
    IN  IF num % height = 0 /\ y > 0 /\ num > 0
        THEN {num \div height - 1, num \div height}
        ELSE {num \div height}

RECURSIVE ChannelRows(_, _, _, _)
ChannelRows(c1, c2, height, y) ==
    IF y >= height THEN { <<>> }
    ELSE { <<v>> \o rest : v \in RowValues(c1, c2, y, height),
                           rest \in ChannelRows(c1, c2, height, y + 1) }

\* The gradients a call can return: rows[y + 1] is the colour of row y.
_create_gradient_background(width, height, color_hex) ==
    LET color1 == Anchors(color_hex)[1]
        color2 == Anchors(color_hex)[2]
    IN  { [order |-> "RGB", w |-> width, h |-> height,
           rows |-> [y \in 1..height |-> << r[y], g[y], b[y] >>]] :
            r \in ChannelRows(color1[1], color2[1], height, 0),
            g \in ChannelRows(color1[2], color2[2], height, 0),
            b \in ChannelRows(color1[3], color2[3], height, 0) }

(***************************************************************************)
(* SpecGradient: one call of _create_gradient_background per step, for the *)
(* ten palette colours (with and without '#', upper and lower case) and    *)
(* for colours outside the palette.                                        *)
(***************************************************************************)
OtherDigits ==
    { <<1, 4, 15, 15, 0, 0>>, <<0, 0, 0, 0, 0, 0>>, <<15, 15, 1, 14, 1, 15>> }

GradientColors ==
    { HexColor(hash, lower, COLORS[i]) :
        hash \in BOOLEAN, lower \in BOOLEAN, i \in 1..Len(COLORS) }
    \cup { HexColor(hash, FALSE, d) : hash \in BOOLEAN, d \in OtherDigits }

InitGradient ==
    /\ celebrity_db = <<>>
    /\ call = Idle
    /\ ret = None
    /\ heap = <<>>
    /\ events = <<>>
    /\ ServiceOff

CallCreateGradientBackground ==
    /\ call = Idle
    /\ \E height \in 1..MaxGradH, width \in 1..MaxGradW,
          color_hex \in GradientColors :
         \E gradient \in _create_gradient_background(width, height, color_hex) :
            /\ call' = [op |-> "_create_gradient_background",
                        width |-> width, height |-> height,
                        color_hex |-> color_hex]
            /\ ret' = gradient
    /\ UNCHANGED <<celebrity_db, heap, events>>
    /\ UNCHANGED service_vars

NextGradient == CallCreateGradientBackground \/ Return

SpecGradient == InitGradient /\ [][NextGradient]_vars

GradientCalled == call.op = "_create_gradient_background"

First == Anchors(call.color_hex)[1]

Second == Anchors(call.color_hex)[2]

Channels == 1..3

RowZeroIsFirstAnchor == ret.rows[1] = First

MonotoneChannel(c) ==
    \/ \A y \in 1..(call.height - 1) : ret.rows[y][c] <= ret.rows[y + 1][c]
    \/ \A y \in 1..(call.height - 1) : ret.rows[y][c] >= ret.rows[y + 1][c]

\* C9 (as claimed): for every height >= 1, row 0 equals the first anchor,
\* the last row equals the second anchor within 1 per channel, and every
\* channel is monotone from row to row.
C9_Original ==
    (GradientCalled /\ call.height >= 1) =>
        /\ RowZeroIsFirstAnchor
        /\ \A c \in Channels : Abs(ret.rows[call.height][c] - Second[c]) <= 1
        /\ \A c \in Channels : MonotoneChannel(c)

\* C9 (amended): for every height >= 1, row 0 equals the first anchor; the
\* last row (ratio (height-1)/height, not 1) differs from the second anchor
\* by at most |second - first| / height + 1 per channel; and every channel
\* in which the two anchors differ is monotone from row to row, in the
\* direction from the first anchor to the second.
C9_GradientShape ==
    (GradientCalled /\ call.height >= 1) =>
        /\ RowZeroIsFirstAnchor
        /\ \A c \in Channels :
              call.height * Abs(ret.rows[call.height][c] - Second[c])
                  <= Abs(Second[c] - First[c]) + call.height
        /\ \A c \in Channels :
              /\ First[c] < Second[c] =>
                    \A y \in 1..(call.height - 1) :
                        ret.rows[y][c] <= ret.rows[y + 1][c]
              /\ First[c] > Second[c] =>
                    \A y \in 1..(call.height - 1) :
                        ret.rows[y][c] >= ret.rows[y + 1][c]

\* A palette gradient of several rows whose last row is far from the second
\* anchor, and in which some row was computed from an integer exact value.
C9_Witness ==
    /\ GradientCalled
    /\ call.height >= 3
    /\ InB99(call.color_hex)
    /\ \E c \in Channels : Abs(ret.rows[call.height][c] - Second[c]) > 1
    /\ \E c \in Channels, y \in 1..(call.height - 1) :
          InterpolateNum(First[c], Second[c], y, call.height) % call.height = 0
    /\ \A c \in Channels : ret.rows[1][c] < ret.rows[call.height][c]

(***************************************************************************)
(* Image buffers                                                           *)
(*                                                                         *)
(* A machine state m is [heap, next, events]: the live buffers by object   *)
(* identity, the identity the next allocation gets, and the log of the     *)
(* calls made so far.  A buffer is [order, w, h, pix]; pix is the list of  *)
(* what was painted into it, oldest first.  A buffer that no name refers   *)
(* to any more is dropped from the heap, as CPython's reference counting   *)
(* does.                                                                   *)
(***************************************************************************)
Buffer(order, w, h, pix) == [order |-> order, w |-> w, h |-> h, pix |-> pix]

Alloc(m, buf) ==
    [heap |-> (m.next :> buf) @@ m.heap, next |-> m.next + 1, events |-> m.events]

\* The function f without the identities outside S.
RECURSIVE Restrict(_, _)
Restrict(f, S) ==
    IF S = {} THEN <<>>
    ELSE LET i == CHOOSE i \in S : TRUE
         IN  (i :> f[i]) @@ Restrict(f, S \ {i})

Free(m, id) ==
    [m EXCEPT !.heap = Restrict(m.heap, (DOMAIN m.heap) \ {id})]

Log(m, e) == [m EXCEPT !.events = Append(@, e)]

Literal(r, g, b) == [order |-> "any", ch |-> <<r, g, b>>]

\* The colour a viewer sees when the tuple color is written into a buffer of
\* channel order buf_order: the buffer takes the tuple's channels by position.
Shown(color, buf_order) ==
    IF buf_order = "BGR" THEN << color.ch[3], color.ch[2], color.ch[1] >>
    ELSE color.ch

\* In-place drawing calls (cv2.drawContours, cv2.rectangle, cv2.putText) on
\* buffer id, in the order of draws; a draw is [fn, what, color].
DrawLayer(draw, buf_order) ==
    [layer |-> draw.what, shown |-> Shown(draw.color, buf_order)]

DrawEvent(draw, id, buf_order) ==
    [ev |-> "draw", fn |-> draw.fn, what |-> draw.what, buf |-> id,
     buf_order |-> buf_order, color |-> draw.color]

Draw(fn, what, color) == [fn |-> fn, what |-> what, color |-> color]

Paint(m, id, draws) ==
    LET buf_order == m.heap[id].order
    IN  [m EXCEPT
           !.heap[id].pix =
               @ \o [j \in 1..Len(draws) |-> DrawLayer(draws[j], buf_order)],
           !.events =
               @ \o [j \in 1..Len(draws) |-> DrawEvent(draws[j], id, buf_order)]]

ZerosLike(m, id) == Alloc(m, [m.heap[id] EXCEPT !.pix = <<>>])

\* image.copy()
Copy(m, id) == Alloc(m, m.heap[id])

\* cv2.cvtColor(image, code): a new buffer with the other channel order.
CvtColor(m, id, order) == Alloc(m, [m.heap[id] EXCEPT !.order = order])

(***************************************************************************)
(* Compositor: _draw_improved_edge, _draw_colored_edge, _add_name_label,   *)
(* _add_b99_name_label.  Each takes m and the identity of its input image  *)
(* and yields [m, result]: the new machine state and the identity of the   *)
(* buffer it returns.                                                      *)
(***************************************************************************)
\* range(start, 0, -step) as a sequence.
RangeDown(start, step) ==
    [j \in 1..((start + step - 1) \div step) |-> start - step * (j - 1)]

\* The glow loop: pass j makes overlay = result.copy(), draws the contours on
\* the overlay with thickness + i * 2, and replaces result by
\* addWeighted(overlay, alpha, result, 1 - alpha, 0), a new buffer.  Both the
\* overlay and the old result are dropped after the pass.  With result the
\* copy made before the loop (identity m.next - 1), pass j allocates the
\* identities m.next + 2j - 2 (overlay) and m.next + 2j - 1 (new result).
GlowPasses(glow_size) == RangeDown(glow_size, 2)

GlowLoop(m, result, bgr, thickness, glow_size) ==
    LET steps == GlowPasses(glow_size)
        n == Len(steps)
        buf_order == m.heap[result].order
        glow(j) == Draw("drawContours", "glow", bgr)
        layers == [j \in 1..n |->
                     [layer |-> "glow", i |-> steps[j],
                      thickness |-> thickness + steps[j] * 2,
                      shown |-> Shown(bgr, buf_order)]]
        drawn == [j \in 1..n |->
                     DrawEvent(glow(j), m.next + 2 * j - 2, buf_order)]
        blended == IF n = 0 THEN result ELSE m.next + 2 * n - 1
        buffer == [m.heap[result] EXCEPT !.pix = @ \o layers]
    IN  [m |-> [heap |-> (blended :> buffer)
                          @@ Free(m, result).heap,
                next |-> m.next + 2 * n,
                events |-> m.events \o drawn],
         result |-> blended]

EdgeColor(color_hex) == _hex_to_bgr(color_hex)

\* The strokes after the glow loop: the main edge, then the thin white
\* highlight, both drawn in place on the loop's result.
EdgeStrokes(glow, bgr) ==
    [m |-> Paint(glow.m, glow.result,
                 << Draw("drawContours", "edge", bgr),
                    Draw("drawContours", "highlight", Literal(255, 255, 255)) >>),
     result |-> glow.result]

_draw_improved_edge(m, image, mask, color_hex, thickness, glow_size) ==
    IF ~mask.person THEN [m |-> m, result |-> image]
    ELSE EdgeStrokes(GlowLoop(Copy(m, image), m.next, EdgeColor(color_hex),
                              thickness, glow_size),
                     EdgeColor(color_hex))

DefaultGlowSize == 15

ColoredEdgeThickness == 5

_draw_colored_edge(m, image, mask, color_hex) ==
    _draw_improved_edge(m, image, mask, color_hex, ColoredEdgeThickness,
                        DefaultGlowSize)

_add_name_label(m, image, name, face_location, color_hex) ==
    [m |-> Paint(Copy(m, image), m.next,
                 << Draw("rectangle", "badge shadow", Literal(30, 30, 30)),
                    Draw("rectangle", "badge", _hex_to_bgr(color_hex)),
                    Draw("rectangle", "badge border", Literal(255, 255, 255)),
                    Draw("putText", "label shadow", Literal(0, 0, 0)),
                    Draw("putText", "label", Literal(255, 255, 255)) >>),
     result |-> m.next]

FirstShadowOffset == 8

\* The title's shadow loop, range(8, 0, -2): as the glow loop, with putText
\* in black on the overlay.
ShadowLoop(m, result) ==
    LET steps == RangeDown(FirstShadowOffset, 2)
        n == Len(steps)
        buf_order == m.heap[result].order
        layers == [j \in 1..n |->
                     [layer |-> "title shadow", offset |-> steps[j],
                      shown |-> <<0, 0, 0>>]]
        drawn == [j \in 1..n |->
                     DrawEvent(Draw("putText", "title shadow", Literal(0, 0, 0)),
                               m.next + 2 * j - 2, buf_order)]
        blended == IF n = 0 THEN result ELSE m.next + 2 * n - 1
        buffer == [m.heap[result] EXCEPT !.pix = @ \o layers]
    IN  [m |-> [heap |-> (blended :> buffer)
                          @@ Free(m, result).heap,
                next |-> m.next + 2 * n,
                events |-> m.events \o drawn],
         result |-> blended]

TitleColor(color_hex) == _hex_to_rgb(color_hex)

\* The strokes after the shadow loop: the title in the theme colour, then
\* its thin white outline.
TitleStrokes(shadow, rgb) ==
    [m |-> Paint(shadow.m, shadow.result,
                 << Draw("putText", "title", rgb),
                    Draw("putText", "title outline", Literal(255, 255, 255)) >>),
     result |-> shadow.result]

_add_b99_name_label(m, image, name, color_hex) ==
    TitleStrokes(ShadowLoop(Copy(m, image), m.next), TitleColor(color_hex))

(***************************************************************************)
(* Pipeline Orchestrator: process, process_fast, generate_cutout           *)
(*                                                                         *)
(* A detected face is [loc, enc, person]: its rectangle, its embedding,    *)
(* and whether the segmenter finds foreground in the crop around it.       *)
(***************************************************************************)
BBox(loc) ==
    [x |-> loc.left, y |-> loc.top, width |-> loc.right - loc.left,
     height |-> loc.bottom - loc.top]

AdvanceAlways(color_idx, matched) == color_idx + 1

\* color_idx += 1 stands inside `if match:`.
NextColorIdx(color_idx, matched) ==
    IF matched THEN color_idx + 1 ELSE color_idx

ColorAt(color_idx) == PaletteColor((color_idx % Len(COLORS)) + 1)

MatchRecord(match, color, loc) ==
    [celebrity_id |-> match.celeb_id, name |-> match.name,
     confidence |-> match.confidence, color |-> color, bbox |-> BBox(loc)]

\* A name rebound to the buffer r.result that a call returned: the buffer
\* old that it referred to is dropped, unless the call returned old itself.
Rebind(r, old) ==
    [m |-> IF r.result = old THEN r.m ELSE Free(r.m, old), result |-> r.result]

\* A segmentation that is retried once.
FaceSegmentedAgain(m, rgb_image, face) ==
    LET seg == _segment_person(m.heap[rgb_image].w, m.heap[rgb_image].h,
                               face.loc, face.person)
    IN  [m |-> [m EXCEPT !.events = @ \o seg.events \o seg.events],
         mask |-> seg.mask]

\* mask = self._segment_person(rgb_image, face_location)
FaceSegmented(m, rgb_image, face) ==
    LET seg == _segment_person(m.heap[rgb_image].w, m.heap[rgb_image].h,
                               face.loc, face.person)
    IN  [m |-> [m EXCEPT !.events = @ \o seg.events], mask |-> seg.mask]

\* annotated = self._draw_colored_edge(annotated, mask, color)
FaceEdged(sg, annotated, color) ==
    Rebind(_draw_colored_edge(sg.m, annotated, sg.mask, color), annotated)

\* annotated = self._add_name_label(annotated, ..., face_location, color)
FaceLabelled(e, name, face_location, color) ==
    Rebind(_add_name_label(e.m, e.result, name, face_location, color), e.result)

\* results["matches"].append({...}); color_idx += 1
FaceAppended(lab, st, face, k, match, color) ==
    [m |-> Log(lab.m, [ev |-> "append", face |-> k]),
     annotated |-> lab.result,
     color_idx |-> NextColorIdx(st.color_idx, TRUE),
     matches |-> Append(st.matches, MatchRecord(match, color, face.loc))]

\* The body of process's loop for the k-th detected face, whose match is
\* match; st is [m, annotated, color_idx, matches].
FaceOutcome(rgb_image, face, k, st, match) ==
    LET m0 == Log(st.m, [ev |-> "match", face |-> k, matched |-> match # None])
        color == ColorAt(st.color_idx)
    IN  IF match = None
        THEN [st EXCEPT !.m = m0, !.color_idx = NextColorIdx(@, FALSE)]
        ELSE FaceAppended(
                 FaceLabelled(
                     FaceEdged(FaceSegmented(m0, rgb_image, face),
                               st.annotated, color),
                     match.name, face.loc, color),
                 st, face, k, match, color)

ProcessFace(db, rgb_image, face, k, st) ==
    FaceOutcome(rgb_image, face, k, st,
                _match_face(db, face.enc, DefaultTolerance))

\* for face_location, face_encoding in zip(face_locations, face_encodings).
\* (color_idx is never negative: the conjunct makes TLC evaluate st at every
\* iteration instead of nesting the iterations.)
RECURSIVE ProcessLoop(_, _, _, _, _)
ProcessLoop(db, rgb_image, faces, k, st) ==
    IF st.color_idx >= 0 /\ k > Len(faces) THEN st
    ELSE ProcessLoop(db, rgb_image, faces, k + 1,
                     ProcessFace(db, rgb_image, faces[k], k, st))

\* annotated = image.copy(); rgb_image = cv2.cvtColor(...); the detector runs.
ProcessStart(m, image, n) ==
    [m |-> Log(CvtColor(Copy(m, image), image, "RGB"),
               [ev |-> "detect", model |-> "default", n |-> n]),
     annotated |-> m.next, color_idx |-> 0, matches |-> <<>>]

\* results["annotated_image"] = annotated; return results
ProcessReturn(st, rgb_image) ==
    [m |-> Free(st.m, rgb_image),
     ret |-> [status |-> "ok", matches |-> st.matches,
              annotated_image |-> st.annotated]]

\* process(image): m holds the caller's image at identity image.
process(db, m, image, faces) ==
    ProcessReturn(ProcessLoop(db, m.next + 1, faces, 1,
                              ProcessStart(m, image, Len(faces))),
                  m.next + 1)

FaceIndexOneBased(faces) == Len(faces)

\* "face_index": len(results["faces"]) - 1
FaceIndex(faces) == Len(faces) - 1

\* The body of process_fast's loop for the k-th detected face, whose match
\* is match; st is [m, color_idx, faces, matches].
FastFaceOutcome(face, k, st, match) ==
    LET face_data == [bbox |-> BBox(face.loc)]
        faces == Append(st.faces, face_data)
        m0 == Log(st.m, [ev |-> "match", face |-> k, matched |-> match # None])
    IN  IF match = None
        THEN [st EXCEPT !.m = m0, !.faces = faces,
                        !.color_idx = NextColorIdx(@, FALSE)]
        ELSE [m |-> Log(m0, [ev |-> "append", face |-> k]),
              color_idx |-> NextColorIdx(st.color_idx, TRUE),
              faces |-> faces,
              matches |-> Append(st.matches,
                  [celebrity_id |-> match.celeb_id, name |-> match.name,
                   confidence |-> match.confidence,
                   color |-> ColorAt(st.color_idx),
                   face_index |-> FaceIndex(faces),
                   bbox |-> face_data.bbox])]

ProcessFastFace(db, face, k, st) ==
    FastFaceOutcome(face, k, st, _match_face(db, face.enc, DefaultTolerance))

RECURSIVE ProcessFastLoop(_, _, _, _)
ProcessFastLoop(db, faces, k, st) ==
    IF st.color_idx >= 0 /\ k > Len(faces) THEN st
    ELSE ProcessFastLoop(db, faces, k + 1,
                         ProcessFastFace(db, faces[k], k, st))

\* return results
ProcessFastReturn(st, rgb_image) ==
    [m |-> Free(st.m, rgb_image),
     ret |-> [status |-> "ok", faces |-> st.faces, matches |-> st.matches]]

process_fast(db, m, image, faces) ==
    ProcessFastReturn(
        ProcessFastLoop(db, faces, 1,
            [m |-> Log(CvtColor(m, image, "RGB"),
                       [ev |-> "detect", model |-> "hog", n |-> Len(faces)]),
             color_idx |-> 0, faces |-> <<>>, matches |-> <<>>]),
        m.next)

CutoutEdgeThickness == 4

CutoutGlowSize == 20

\* The presentation canvas of generate_cutout.  The double products
\* crop_h * 1.3 and target_h * 0.1 truncate to the same integers as the
\* exact ones; the double nearest 0.7 lies below 0.7, and of the heights
\* below 330 the product target_h * 0.7 truncates one below the exact
\* 7 * target_h / 10 at the heights Double07Short.
TargetH(crop_h) == Max(crop_h, PyInt(crop_h * 13, 10))

Double07Short == {90, 170, 180}

\* int(target_h * 0.7)
Times07(target_h) ==
    PyInt(target_h * 7, 10) - (IF target_h \in Double07Short THEN 1 ELSE 0)

\* A canvas width taken from the height alone.
TargetWOfHeight(crop_w, target_h) == Times07(target_h)

TargetW(crop_w, target_h) == Max(crop_w, Times07(target_h))

PasteX(target_w, crop_w) == (target_w - crop_w) \div 2

PasteY(target_h, crop_h) ==
    LET paste_y == Min(PyInt(target_h, 10), target_h - crop_h)
    IN  IF paste_y < 0 THEN 0 ELSE paste_y

\* rgb_image = cv2.cvtColor(image, cv2.COLOR_BGR2RGB), then the
\* high-quality segmentation around face_box.  The stages of generate_cutout
\* hand on a frame f: the machine state m and the local names bound so far.
CutoutSegmented(m, image, face_box, response, person) ==
    LET m1 == CvtColor(m, image, "RGB")
        rgb_image == m.next
        face_location ==
            FaceLocation(face_box.y, face_box.x + face_box.width,
                         face_box.y + face_box.height, face_box.x)
        seg == _segment_person_high_quality(m1.heap[rgb_image].w,
                   m1.heap[rgb_image].h, face_location, response, person)
    IN  [m |-> [m1 EXCEPT !.events = @ \o seg.events],
         rgb_image |-> rgb_image, seg |-> seg]

\* person_crop = rgb_image[y1:y2, x1:x2].copy(), and cutout_rgba built from
\* it and alpha.
CutoutCropped(f) ==
    LET crop_box == f.seg.crop_box
        crop_w == BoxWidth(crop_box)
        crop_h == BoxHeight(crop_box)
        person_crop == f.m.next
        m1 == Alloc(f.m, Buffer("RGB", crop_w, crop_h,
                  Append(f.m.heap[f.rgb_image].pix,
                         [layer |-> "crop", box |-> crop_box])))
    IN  [m |-> Alloc(m1, Buffer("RGBA", crop_w, crop_h,
                  Append(m1.heap[person_crop].pix,
                         [layer |-> "alpha", person |-> f.seg.alpha.person]))),
         rgb_image |-> f.rgb_image, person_crop |-> person_crop,
         cutout_rgba |-> person_crop + 1, crop_w |-> crop_w, crop_h |-> crop_h,
         person |-> f.seg.alpha.person]

\* The gradient background, presentation = background.copy(), the person
\* blended onto it at (paste_x, paste_y), and presentation_mask.
CutoutPasted(f, color_hex) ==
    LET target_h == TargetH(f.crop_h)
        target_w == TargetW(f.crop_w, target_h)
        paste_x == PasteX(target_w, f.crop_w)
        paste_y == PasteY(target_h, f.crop_h)
        background == f.m.next
        presentation == background + 1
        m1 == Copy(Alloc(f.m, Buffer("RGB", target_w, target_h,
                      << [layer |-> "gradient", color_hex |-> color_hex] >>)),
                   background)
    IN  [m |-> [m1 EXCEPT !.heap[presentation].pix =
                   Append(@, [layer |-> "paste", x |-> paste_x, y |-> paste_y,
                              w |-> f.crop_w, h |-> f.crop_h])],
         rgb_image |-> f.rgb_image, person_crop |-> f.person_crop,
         cutout_rgba |-> f.cutout_rgba, background |-> background,
         presentation |-> presentation,
         presentation_mask |->
             [w |-> target_w, h |-> target_h,
              box |-> << paste_x, paste_y, paste_x + f.crop_w,
                         paste_y + f.crop_h >>,
              person |-> f.person]]

\* presentation = <call>(presentation, ...), the call having returned r.
Rebound(f, r) == [f EXCEPT !.m = r.m, !.presentation = r.result]

\* presentation = self._draw_improved_edge(presentation, presentation_mask,
\*                                         color_hex, thickness=4, glow_size=20)
CutoutEdged(f, color_hex) ==
    Rebound(f, Rebind(_draw_improved_edge(f.m, f.presentation,
                          f.presentation_mask, color_hex, CutoutEdgeThickness,
                          CutoutGlowSize),
                      f.presentation))

\* presentation = self._add_b99_name_label(presentation, name, color_hex)
CutoutTitled(f, name, color_hex) ==
    Rebound(f, Rebind(_add_b99_name_label(f.m, f.presentation, name, color_hex),
                      f.presentation))

\* presentation_bgr = cv2.cvtColor(presentation, cv2.COLOR_RGB2BGR); return
CutoutReturn(f) ==
    [m |-> Free(Free(Free(CvtColor(f.m, f.presentation, "BGR"), f.rgb_image),
                     f.person_crop),
                f.background),
     ret |-> [status |-> "ok", cutout_rgba |-> f.cutout_rgba,
              presentation_rgb |-> f.presentation,
              presentation_bgr |-> f.m.next]]

\* generate_cutout after the segmentation: an exception raised by it leaves
\* the function at once.
CutoutFrom(f, color_hex, name) ==
    IF f.seg.status # "ok"
    THEN [m |-> Free(f.m, f.rgb_image), ret |-> [status |-> f.seg.status]]
    ELSE CutoutReturn(
             CutoutTitled(
                 CutoutEdged(CutoutPasted(CutoutCropped(f), color_hex),
                             color_hex),
                 name, color_hex))

generate_cutout(m, image, face_box, color_hex, name, response, person) ==
    CutoutFrom(CutoutSegmented(m, image, face_box, response, person),
               color_hex, name)

(***************************************************************************)
(* Spec: a pipeline with any small gallery serves calls of process,        *)
(* process_fast and generate_cutout on a decoded BGR image.  The detector  *)
(* answers with any short list of faces, or with a crowd: up to MaxCrowd   *)
(* copies of one face with another face at one place.                      *)
(***************************************************************************)
InputImage == Buffer("BGR", 12, 16, << [layer |-> "photo"] >>)

Input == 1

Fresh == [heap |-> (Input :> InputImage), next |-> Input + 1, events |-> <<>>]

DetectableFaces ==
    { [loc |-> FaceLocation(1, 5, 4, 2), enc |-> 0, person |-> TRUE],
      [loc |-> FaceLocation(2, 11, 5, 8), enc |-> 6, person |-> TRUE],
      [loc |-> FaceLocation(9, 7, 11, 5), enc |-> 4, person |-> FALSE] }

Crowd(n, f, g, k) == [i \in 1..n |-> IF i = k THEN g ELSE f]

FaceLists ==
    SeqsUpTo(DetectableFaces, MaxFaces)
    \cup UNION { { Crowd(n, f, g, k) : k \in 1..n, f \in DetectableFaces,
                                         g \in DetectableFaces } :
                    n \in 1..MaxCrowd }

CutoutColors ==
    { PaletteColor(1), HexColor(FALSE, TRUE, COLORS[2]),
      HexColor(TRUE, FALSE, <<1, 4, 15, 15, 0, 0>>) }

Init ==
    /\ celebrity_db \in Galleries(MaxPipeGallery, MaxPipeEnc)
    /\ call = Idle
    /\ ret = None
    /\ heap = <<>>
    /\ events = <<>>
    /\ ServiceOff

CallProcess ==
    /\ call = Idle
    /\ \E faces \in FaceLists :
         LET r == process(celebrity_db, Fresh, Input, faces)
         IN  /\ call' = [op |-> "process", image |-> Input, faces |-> faces]
             /\ ret' = r.ret
             /\ heap' = r.m.heap
             /\ events' = r.m.events
    /\ celebrity_db' = AfterItems(celebrity_db)
    /\ UNCHANGED service_vars

CallProcessFast ==
    /\ call = Idle
    /\ \E faces \in FaceLists :
         LET r == process_fast(celebrity_db, Fresh, Input, faces)
         IN  /\ call' = [op |-> "process_fast", image |-> Input,
                         faces |-> faces]
             /\ ret' = r.ret
             /\ heap' = r.m.heap
             /\ events' = r.m.events
    /\ celebrity_db' = AfterItems(celebrity_db)
    /\ UNCHANGED service_vars

CallGenerateCutout ==
    /\ call = Idle
    /\ \E face \in DetectableFaces, color_hex \in CutoutColors,
          i \in 1..MaxPipeGallery, response \in SegResponses,
          person \in BOOLEAN :
         LET r == generate_cutout(Fresh, Input, BBox(face.loc), color_hex,
                                  CelebName(i), response, person)
         IN  /\ call' = [op |-> "generate_cutout", image |-> Input,
                         face_box |-> BBox(face.loc), color_hex |-> color_hex,
                         name |-> CelebName(i), response |-> response,
                         person |-> person]
             /\ ret' = r.ret
             /\ heap' = r.m.heap
             /\ events' = r.m.events
    /\ celebrity_db' = AfterItems(celebrity_db)
    /\ UNCHANGED service_vars

Next ==
    CallProcess \/ CallProcessFast \/ CallGenerateCutout \/ CallMatchFace
    \/ Return

Spec == Init /\ [][Next]_vars

(***************************************************************************)
(* Vocabulary of the pipeline claims                                       *)
(***************************************************************************)
ProcessCalled == call.op = "process"

ProcessFastCalled == call.op = "process_fast"

CutoutCalled == call.op = "generate_cutout"

IsMatched(face) == _match_face(celebrity_db, face.enc, DefaultTolerance) # None

\* The positions in faces of the matched faces, in detection order.
RECURSIVE MatchedPositions(_, _)
MatchedPositions(faces, k) ==
    IF k > Len(faces) THEN <<>>
    ELSE (IF IsMatched(faces[k]) THEN <<k>> ELSE <<>>)
         \o MatchedPositions(faces, k + 1)

WrappedColor(k) == PaletteColor((k % 10) + 1)

\* The matches the other mode returns for the same detector output.
OtherModeMatches ==
    IF ProcessCalled
    THEN process_fast(celebrity_db, Fresh, Input, call.faces).ret.matches
    ELSE process(celebrity_db, Fresh, Input, call.faces).ret.matches

\* C5: in process and in process_fast the k-th matched face in detection
\* order (k from 0, matched faces only) receives COLORS[k mod 10], so that
\* unmatched faces never advance the colour index and the 1st and the 11th
\* match share a colour; and for the same detector output and gallery the
\* other mode gives every matched face the same colour.
C5_PaletteByMatchOrder ==
    (ProcessCalled \/ ProcessFastCalled) =>
        LET at == MatchedPositions(call.faces, 1)
            other == OtherModeMatches
        IN  /\ Len(ret.matches) = Len(at)
            /\ Len(other) = Len(at)
            /\ \A j \in 1..Len(at) :
                 /\ ret.matches[j].bbox = BBox(call.faces[at[j]].loc)
                 /\ ret.matches[j].color = WrappedColor(j - 1)
                 /\ other[j].bbox = ret.matches[j].bbox
                 /\ other[j].color = ret.matches[j].color
            /\ Len(at) >= 11 => ret.matches[11].color = ret.matches[1].color

\* A full-annotate call on a crowd with eleven matches and an unmatched face
\* before the last of them.
C5_Witness ==
    /\ ProcessCalled
    /\ Len(ret.matches) >= 11
    /\ \E k \in 1..Len(call.faces) :
         /\ ~IsMatched(call.faces[k])
         /\ k < MatchedPositions(call.faces, 1)[11]

\* C7: after process_fast, faces holds one entry per detected face in
\* detection order, matches holds exactly the matched faces in detection
\* order, every face_index is a valid index into faces whose bbox is the
\* match's bbox, and face_index is strictly increasing along matches.
C7_FastResultShape ==
    ProcessFastCalled =>
        LET at == MatchedPositions(call.faces, 1)
        IN  /\ Len(ret.faces) = Len(call.faces)
            /\ \A i \in 1..Len(call.faces) :
                 ret.faces[i].bbox = BBox(call.faces[i].loc)
            /\ Len(ret.matches) = Len(at)
            /\ \A j \in 1..Len(at) :
                 /\ ret.matches[j].face_index = at[j] - 1
                 /\ ret.matches[j].face_index \in 0..(Len(ret.faces) - 1)
                 /\ ret.faces[ret.matches[j].face_index + 1].bbox
                        = ret.matches[j].bbox
            /\ \A j \in 1..(Len(at) - 1) :
                 ret.matches[j].face_index < ret.matches[j + 1].face_index

\* A fast call with an unmatched face between two matched ones.
C7_Witness ==
    /\ ProcessFastCalled
    /\ \E j \in 1..(Len(ret.matches) - 1) :
         ret.matches[j + 1].face_index > ret.matches[j].face_index + 1

SegmenterInvoked == \E i \in 1..Len(events) : events[i].ev = "segment"

CompositorInvoked == \E i \in 1..Len(events) : events[i].ev = "draw"

\* C8: when the detector returns no face, process returns an empty match
\* list and an annotated image that is a copy of the input in a buffer of
\* its own; neither the segmenter nor the compositor is invoked and the
\* caller's buffer is unchanged.
C8_NoFacesCopy ==
    (ProcessCalled /\ call.faces = <<>>) =>
        /\ ret.status = "ok"
        /\ ret.matches = <<>>
        /\ ret.annotated_image # call.image
        /\ heap[ret.annotated_image] = InputImage
        /\ heap[call.image] = InputImage
        /\ ~SegmenterInvoked
        /\ ~CompositorInvoked

\* A full-annotate call with a non-empty gallery and no detected face.
C8_Witness ==
    /\ ProcessCalled
    /\ call.faces = <<>>
    /\ celebrity_db # <<>>
    /\ ret.annotated_image \in DOMAIN heap

\* The drawing calls whose colour tuple came from a hex colour.
HexDraws ==
    { i \in 1..Len(events) :
        events[i].ev = "draw" /\ events[i].color.order # "any" }

\* C10: in every drawing call of process and generate_cutout the colour
\* tuple derived from a hex colour has the channel order of the buffer it
\* is drawn on.
C10_Original ==
    (ProcessCalled \/ CutoutCalled) =>
        \A i \in HexDraws : events[i].color.order = events[i].buf_order

\* A cutout whose edge is drawn with a BGR tuple on the RGB presentation
\* buffer while its title is drawn there with an RGB tuple.
C10_Witness ==
    /\ CutoutCalled
    /\ \E i, j \in HexDraws :
         /\ events[i].what = "edge"
         /\ events[i].buf_order = "RGB" /\ events[i].color.order = "BGR"
         /\ events[j].what = "title"
         /\ events[j].buf_order = "RGB" /\ events[j].color.order = "RGB"

\* The stage an event of the trace belongs to.
Stage(e) ==
    IF e.ev = "draw"
    THEN (IF e.what \in {"glow", "edge", "highlight"} THEN "edge" ELSE "badge")
    ELSE e.ev

\* The events that open a stage: of the drawing calls of one render, the
\* first.
StageOpeners(evs) ==
    { i \in 1..Len(evs) :
        ~ /\ i > 1
          /\ Stage(evs[i]) \in {"edge", "badge"}
          /\ Stage(evs[i]) = Stage(evs[i - 1]) }

\* The position of the event i among the events at.
Rank(at, i) == Cardinality({ j \in at : j <= i })

\* The stages opened at the events at are, in the order of the trace, stages.
StagesAre(evs, at, stages) ==
    /\ Cardinality(at) = Len(stages)
    /\ \A i \in at : Stage(evs[i]) = stages[Rank(at, i)]

EventsOf(evs, ev) == { i \in 1..Len(evs) : evs[i].ev = ev }

\* The events at name, in the order of the trace, the faces faces.
FacesAre(evs, at, faces) ==
    /\ Cardinality(at) = Len(faces)
    /\ \A i \in at : evs[i].face = faces[Rank(at, i)]

\* The stages of one face: a matched face whose mask holds a person has an
\* outline to stroke, a matched face whose mask is empty has none.
FaceStages(face) ==
    IF ~IsMatched(face) THEN << "match" >>
    ELSE IF face.person
         THEN << "match", "segment", "edge", "badge", "append" >>
         ELSE << "match", "segment", "badge", "append" >>

RECURSIVE PassStages(_, _)
PassStages(faces, k) ==
    IF k > Len(faces) THEN <<>>
    ELSE FaceStages(faces[k]) \o PassStages(faces, k + 1)

SegmentCount(evs) == Cardinality(EventsOf(evs, "segment"))

\* C18: process runs one pass: one detection, then for each face in
\* detection order a match and, only if it matched, one segmentation, the
\* edge render, the badge render and the append of one match record. The
\* segmenter runs exactly once per matched face and never for an unmatched
\* one, and the match list holds one record per matched face, in detection
\* order.
C18_OnePass ==
    ProcessCalled =>
        /\ StagesAre(events, StageOpeners(events),
                     << "detect" >> \o PassStages(call.faces, 1))
        /\ FacesAre(events, EventsOf(events, "match"),
                    [k \in 1..Len(call.faces) |-> k])
        /\ FacesAre(events, EventsOf(events, "append"),
                    MatchedPositions(call.faces, 1))
        /\ SegmentCount(events) = Len(MatchedPositions(call.faces, 1))
        /\ Len(ret.matches) = Len(MatchedPositions(call.faces, 1))
        /\ \A j \in 1..Len(ret.matches) :
             ret.matches[j].bbox
                 = BBox(call.faces[MatchedPositions(call.faces, 1)[j]].loc)

\* A pass over three faces, the second unmatched between two matched ones.
C18_Witness ==
    /\ ProcessCalled
    /\ Len(call.faces) = 3
    /\ IsMatched(call.faces[1])
    /\ ~IsMatched(call.faces[2])
    /\ IsMatched(call.faces[3])
    /\ SegmentCount(events) = 2
    /\ Len(ret.matches) = 2

MaxThickness == 6

MaxGlowSize == 20

MaxLabelW == 64

MaxLabelH == 64

LabelOffset == 40

BottomMargin == 20

padding_x == 15

padding_y == 10

\* The badge of _add_name_label on an image of image_w x image_h pixels for
\* a label whose cv2.getTextSize is ((text_w, text_h), baseline):
\* << pill_x1, pill_y1, pill_x2, pill_y2 >>.
BadgeRectangle(image_w, image_h, face_location, text_w, text_h, baseline) ==
    LET center_x == (face_location.left + face_location.right) \div 2
        label_y == Min(face_location.bottom + LabelOffset,
                       image_h - BottomMargin)
    IN  << Max(0, center_x - text_w \div 2 - padding_x),
           label_y - text_h - padding_y,
           Min(image_w, center_x + text_w \div 2 + padding_x),
           label_y + padding_y + baseline >>

\* The caller's state with an image of the given channel order and size.
FreshImage(order, w, h) ==
    [heap |-> (Input :> Buffer(order, w, h, << [layer |-> "photo"] >>)),
     next |-> Input + 1, events |-> << >>]

Orders == {"BGR", "RGB"}

Masks == { [w |-> InputImage.w, h |-> InputImage.h,
            box |-> << 0, 0, InputImage.w, InputImage.h >>, person |-> p] :
           p \in BOOLEAN }

\* Image sizes, face rectangles and text sizes handed to _add_name_label.
LabelSizes(max) == {1, 2, max \div 2, max - 1, max}

LabelFaces(w, h) ==
    { f \in { FaceLocation(t, r, b, l) :
                t \in {0, h - 1}, r \in {1, w}, b \in {1, h}, l \in {0, w - 1} } :
        InsideImage(w, h, f) }

TextSizes ==
    { [w |-> tw, h |-> th, baseline |-> bl] :
        tw \in {1, 20, 70}, th \in {1, 22}, bl \in {0, 10, 11} }

InitCompositor ==
    /\ celebrity_db = << >>
    /\ call = Idle
    /\ ret = None
    /\ heap = << >>
    /\ events = << >>
    /\ ServiceOff

\* The state after a Compositor call that returned r on the caller's state
\* m: the caller holds its image and the returned buffer.
Returned(op, m, r, args) ==
    /\ call' = [op |-> op, image |-> Input, before |-> m.heap[Input],
                args |-> args]
    /\ ret' = [status |-> "ok", result |-> r.result]
    /\ heap' = r.m.heap
    /\ events' = r.m.events
    /\ UNCHANGED celebrity_db
    /\ UNCHANGED service_vars

CallDrawImprovedEdge ==
    /\ call = Idle
    /\ \E order \in Orders, mask \in Masks, color_hex \in CutoutColors,
          thickness \in 1..MaxThickness, glow_size \in 0..MaxGlowSize :
         Returned("_draw_improved_edge",
                  FreshImage(order, InputImage.w, InputImage.h),
                  _draw_improved_edge(
                      FreshImage(order, InputImage.w, InputImage.h), Input,
                      mask, color_hex, thickness, glow_size),
                  [mask |-> mask, color_hex |-> color_hex,
                   thickness |-> thickness, glow_size |-> glow_size])

CallDrawColoredEdge ==
    /\ call = Idle
    /\ \E mask \in Masks, i \in 1..Len(COLORS) :
         Returned("_draw_colored_edge", Fresh,
                  _draw_colored_edge(Fresh, Input, mask, PaletteColor(i)),
                  [mask |-> mask, color_hex |-> PaletteColor(i)])

CallAddNameLabel ==
    /\ call = Idle
    /\ \E w \in LabelSizes(MaxLabelW), h \in LabelSizes(MaxLabelH),
          text \in TextSizes :
         \E face_location \in LabelFaces(w, h) :
            Returned("_add_name_label", FreshImage("BGR", w, h),
                     _add_name_label(FreshImage("BGR", w, h), Input,
                                     CelebName(1), face_location,
                                     PaletteColor(1)),
                     [face_location |-> face_location, text |-> text,
                      pill |-> BadgeRectangle(w, h, face_location, text.w,
                                              text.h, text.baseline)])

CallAddB99NameLabel ==
    /\ call = Idle
    /\ \E order \in Orders, color_hex \in CutoutColors :
         Returned("_add_b99_name_label",
                  FreshImage(order, InputImage.w, InputImage.h),
                  _add_b99_name_label(
                      FreshImage(order, InputImage.w, InputImage.h), Input,
                      CelebName(1), color_hex),
                  [color_hex |-> color_hex])

NextCompositor ==
    \/ CallDrawImprovedEdge \/ CallDrawColoredEdge
    \/ CallAddNameLabel \/ CallAddB99NameLabel
    \/ Return

SpecCompositor == InitCompositor /\ [][NextCompositor]_vars

CompositorCalled ==
    call.op \in {"_draw_improved_edge", "_draw_colored_edge",
                 "_add_name_label", "_add_b99_name_label"}

\* C16: every Compositor operation returns a buffer that is a different
\* object from its input image and leaves the input's pixels unchanged, for
\* every input, including a mask from which no contour is extracted.
C16_Original ==
    CompositorCalled =>
        /\ ret.result # call.image
        /\ heap[call.image] = call.before

\* An edge render on a mask without contours: the input is unchanged and
\* is itself the returned buffer.
C16_Witness ==
    /\ call.op = "_draw_colored_edge"
    /\ ~call.args.mask.person
    /\ ret.result = call.image
    /\ heap[call.image] = call.before

NameLabelCalled == call.op = "_add_name_label"

\* C20: in _add_name_label, for every image size, text size and face
\* rectangle inside the image, the badge lies within the image on all four
\* sides: 0 <= pill_x1 < pill_x2 <= width and 0 <= pill_y1 < pill_y2 <=
\* height.
C20_Original ==
    NameLabelCalled =>
        LET pill == call.args.pill
        IN  /\ 0 <= pill[1] /\ pill[1] < pill[3] /\ pill[3] <= call.before.w
            /\ 0 <= pill[2] /\ pill[2] < pill[4] /\ pill[4] <= call.before.h

\* A label of ordinary size on an image half as high as the largest: the
\* badge is inside the image horizontally and starts above its top row.
C20_Witness ==
    /\ NameLabelCalled
    /\ call.before.h = MaxLabelH \div 2
    /\ call.args.text = [w |-> 20, h |-> 22, baseline |-> 10]
    /\ 0 <= call.args.pill[1]
    /\ call.args.pill[1] < call.args.pill[3]
    /\ call.args.pill[3] <= call.before.w
    /\ call.args.pill[2] < 0

EdgeCalled == call.op \in {"_draw_improved_edge", "_draw_colored_edge"}

\* The glow_size of the call: _draw_colored_edge leaves it at its default.
GlowSizeOf(c) ==
    IF c.op = "_draw_improved_edge" THEN c.args.glow_size ELSE DefaultGlowSize

\* The glow layers of a buffer, as positions in its contents.
GlowLayers(pix) == { i \in 1..Len(pix) : pix[i].layer = "glow" }

\* Each glow layer is drawn with a thinner line than the one before it.
GlowThinning(pix) ==
    \A i \in GlowLayers(pix), j \in GlowLayers(pix) :
        i < j => pix[i].thickness > pix[j].thickness

\* C21: for a mask with at least one contour, _draw_improved_edge draws
\* exactly glow_size glow overlays (15 by default), from the thickest line
\* to the thinnest with strictly decreasing thickness, then exactly one
\* solid contour, then exactly one white highlight contour.
C21_Original ==
    (EdgeCalled /\ call.args.mask.person) =>
        /\ Len(events) = GlowSizeOf(call) + 2
        /\ \A i \in 1..GlowSizeOf(call) : events[i].what = "glow"
        /\ events[GlowSizeOf(call) + 1].what = "edge"
        /\ events[GlowSizeOf(call) + 2].what = "highlight"
        /\ Cardinality(GlowLayers(heap[ret.result].pix)) = GlowSizeOf(call)
        /\ GlowThinning(heap[ret.result].pix)

\* An edge render with the default glow_size of 15 on a mask with a
\* contour: eight glow overlays of decreasing thickness, then the solid
\* contour, then the highlight.
C21_Witness ==
    /\ call.op = "_draw_colored_edge"
    /\ call.args.mask.person
    /\ Len(events) = 10
    /\ \A i \in 1..8 : events[i].what = "glow"
    /\ events[9].what = "edge"
    /\ events[10].what = "highlight"
    /\ Cardinality(GlowLayers(heap[ret.result].pix)) = 8
    /\ GlowThinning(heap[ret.result].pix)

(***************************************************************************)
(* SpecLoad: _load_celebrity_encodings                                     *)
(*                                                                         *)
(* The encodings directory is [has_index, index]: whether index.json       *)
(* exists, and its entries in file order.  An entry is [file, enc]: file   *)
(* tells whether <celeb_id>.npy is a valid array file ("valid", holding    *)
(* enc), does not exist ("missing") or cannot be read as an array          *)
(* ("corrupt": np.load raises).                                            *)
(***************************************************************************)
MaxIndex == 3

MaxLoadEnc == 2

IndexEntries ==
    { [file |-> "valid", enc |-> e] : e \in 0..MaxLoadEnc }
    \cup { [file |-> "missing", enc |-> 0], [file |-> "corrupt", enc |-> 0] }

\* for celeb_id, info in index.items(): the i-th entry of the index.  The
\* loaded record keeps the entry's key.
RECURSIVE LoadScan(_, _, _)
LoadScan(index, i, db) ==
    IF i > Len(index) THEN [status |-> "ok", db |-> db]
    ELSE IF index[i].file = "missing" THEN LoadScan(index, i + 1, db)
    ELSE IF index[i].file = "corrupt" THEN [status |-> "raised"]
    ELSE LoadScan(index, i + 1, Append(db, Record(i, index[i].enc)))

_load_celebrity_encodings(has_index, index) ==
    IF has_index THEN LoadScan(index, 1, << >>)
    ELSE [status |-> "ok", db |-> << >>]

InitLoad ==
    /\ celebrity_db = << >>
    /\ call = Idle
    /\ ret = None
    /\ heap = << >>
    /\ events = << >>
    /\ ServiceOff

\* __init__ assigns the loader's result to self.celebrity_db when the loader
\* returns.
CallLoadCelebrityEncodings ==
    /\ call = Idle
    /\ celebrity_db = << >>
    /\ \E has_index \in BOOLEAN, index \in SeqsUpTo(IndexEntries, MaxIndex) :
         LET r == _load_celebrity_encodings(has_index, index)
         IN  /\ has_index \/ index = << >>
             /\ call' = [op |-> "_load_celebrity_encodings",
                         has_index |-> has_index, index |-> index]
             /\ ret' = r
             /\ celebrity_db' = IF r.status = "ok" THEN r.db ELSE celebrity_db
    /\ UNCHANGED <<heap, events>>
    /\ UNCHANGED service_vars

\* The next construction starts from nothing.
Discard ==
    /\ call # Idle
    /\ call' = Idle
    /\ ret' = None
    /\ celebrity_db' = << >>
    /\ UNCHANGED <<heap, events>>
    /\ UNCHANGED service_vars

NextLoad == CallLoadCelebrityEncodings \/ Discard

SpecLoad == InitLoad /\ [][NextLoad]_vars

LoadCalled == call.op = "_load_celebrity_encodings"

\* The keys of the index entries that have a valid embedding file, in order.
RECURSIVE ValidEntries(_, _)
ValidEntries(index, i) ==
    IF i > Len(index) THEN << >>
    ELSE (IF index[i].file = "valid"
          THEN << Record(i, index[i].enc) >> ELSE << >>)
         \o ValidEntries(index, i + 1)

\* C15: for any index whose entries are valid, missing their embedding
\* file, or have a corrupt embedding file, the load completes without
\* raising and the gallery holds exactly the entries with a valid
\* embedding.
C15_Original ==
    LoadCalled =>
        /\ ret.status = "ok"
        /\ ret.db = ValidEntries(call.index, 1)

\* An index with a valid entry followed by a corrupt one: the load raises
\* and no gallery is built.
C15_Witness ==
    /\ LoadCalled
    /\ \E i, j \in 1..Len(call.index) :
         /\ i < j
         /\ call.index[i].file = "valid"
         /\ call.index[j].file = "corrupt"
    /\ ret.status = "raised"
    /\ celebrity_db = << >>

(***************************************************************************)
(* SpecService: the web service of main.py.                                *)
(*                                                                         *)
(* One process runs one event loop.  The lifespan coroutine and every      *)
(* request handler are coroutines (async def) of that loop: a coroutine    *)
(* runs from where it is resumed to its next await or to its end, and      *)
(* nothing else runs on the loop meanwhile.  running names the coroutine   *)
(* the loop is executing.  The only await of a handler is                  *)
(* `await image.read()`; the call of the pipeline method is an ordinary    *)
(* call.  The ASGI server is outside the repository: the model lets it     *)
(* hand a request to the application in any phase of the lifespan.         *)
(*                                                                         *)
(* A request is [endpoint, pc, status, saw_none, touched, left]: pc is the *)
(* position of its handler, status the HTTP status of its answer,          *)
(* saw_none whether the handler found pipeline to be None, touched whether *)
(* it called a method of the pipeline, left the segmenter calls that the   *)
(* pipeline method still has to make.                                      *)
(***************************************************************************)
MaxRequests == 2

MaxSegments == 2

Endpoints == {"/recognize", "/recognize-fast", "/cutout"}

NoTask == << >>

LifespanTask == << "lifespan", 0 >>

RequestTask(r) == << "request", r >>

NoRequest ==
    [endpoint |-> "none", pc |-> "none", status |-> 0, saw_none |-> FALSE,
     touched |-> FALSE, left |-> 0, img_none |-> FALSE, detail |-> << >>]

Answered(req, status) == [req EXCEPT !.pc = "done", !.status = status]

HTTPException(status_code, detail) ==
    [status_code |-> status_code, detail |-> detail]

\* except Exception as e:
\*     raise HTTPException(status_code=500, detail=f"Processing error: {str(e)}")
\* where e is an HTTPException raised inside the try block.
\* str(e) of an HTTPException: its status code and its detail.
Str(e) == << e.status_code, ": " >> \o e.detail

ProcessingError(e) == HTTPException(500, << "Processing error: " >> \o Str(e))

\* if img is None: raise HTTPException(status_code=400, ...), inside try.
DecodeFailed(req) ==
    LET e == ProcessingError(HTTPException(400, << "Could not decode image" >>))
    IN  [Answered(req, e.status_code) EXCEPT !.img_none = TRUE,
                                              !.detail = e.detail]

MayRunInThread(r) == TRUE

\* The handlers are `async def`: the coroutine of request r can take a step
\* when the event loop is free or is executing that coroutine.
MayRun(r) == running \in {NoTask, RequestTask(r)}

NeverMissing == FALSE

\* if pipeline is None:
PipelineMissing == pipeline = None

InitService ==
    /\ celebrity_db = << >>
    /\ call = Idle
    /\ ret = None
    /\ heap = << >>
    /\ events = << >>
    /\ phase = "loaded"
    /\ pipeline = None
    /\ constructions = 0
    /\ requests = [r \in 1..MaxRequests |-> NoRequest]
    /\ running = NoTask

\* lifespan up to init_db().
StartupBegin ==
    /\ phase = "loaded"
    /\ running = NoTask
    /\ phase' = "starting"
    /\ running' = LifespanTask
    /\ UNCHANGED <<pipeline, constructions, requests>>
    /\ UNCHANGED pipe_vars

\* pipeline = CelebrityPipeline(): the constructor returns and the global is
\* assigned, or the constructor raises and the startup fails.
StartupConstruct ==
    /\ phase = "starting"
    /\ running = LifespanTask
    /\ pipeline = None
    /\ \/ /\ pipeline' = [built_in |-> phase]
          /\ constructions' = constructions + 1
          /\ UNCHANGED <<phase, running>>
       \/ /\ phase' = "failed"
          /\ running' = NoTask
          /\ UNCHANGED <<pipeline, constructions>>
    /\ UNCHANGED requests
    /\ UNCHANGED pipe_vars

\* yield: the application serves.
StartupComplete ==
    /\ phase = "starting"
    /\ running = LifespanTask
    /\ pipeline # None
    /\ phase' = "serving"
    /\ running' = NoTask
    /\ UNCHANGED <<pipeline, constructions, requests>>
    /\ UNCHANGED pipe_vars

\* The code after yield.
Shutdown ==
    /\ phase = "serving"
    /\ running = NoTask
    /\ phase' = "stopped"
    /\ UNCHANGED <<pipeline, constructions, requests, running>>
    /\ UNCHANGED pipe_vars

\* The server hands a request for one of the three endpoints to the
\* application.
Arrive(r) ==
    /\ requests[r].pc = "none"
    /\ \E endpoint \in Endpoints :
         requests' = [requests EXCEPT ![r] =
                         [NoRequest EXCEPT !.endpoint = endpoint,
                                           !.pc = "arrived"]]
    /\ UNCHANGED <<phase, pipeline, constructions, running>>
    /\ UNCHANGED pipe_vars

\* The handler from its start to `await image.read()`: 503 when pipeline is
\* None, 400 when the upload is no image.
Enter(r) ==
    /\ requests[r].pc = "arrived"
    /\ MayRun(r)
    /\ IF PipelineMissing
       THEN requests' = [requests EXCEPT ![r] =
                            Answered([@ EXCEPT !.saw_none = TRUE], 503)]
       ELSE \E is_image \in BOOLEAN :
              requests' = [requests EXCEPT ![r] =
                              IF is_image THEN [@ EXCEPT !.pc = "reading"]
                              ELSE Answered(@, 400)]
    /\ running' = NoTask
    /\ UNCHANGED <<phase, pipeline, constructions>>
    /\ UNCHANGED pipe_vars

\* The first library call of the pipeline method behind an endpoint.
FirstStage(endpoint) ==
    IF endpoint = "/cutout" THEN "segmenting" ELSE "detecting"

\* The handler resumed after the read: the image does not decode (the
\* HTTPException raised inside try is caught by `except Exception`), or the
\* handler calls the pipeline method of its endpoint, whose first library
\* call is the detector (process, process_fast) or the segmenter
\* (generate_cutout).
Resume(r) ==
    /\ requests[r].pc = "reading"
    /\ MayRun(r)
    /\ \/ /\ requests' = [requests EXCEPT ![r] = DecodeFailed(@)]
          /\ running' = NoTask
       \/ /\ pipeline = None
          /\ requests' = [requests EXCEPT ![r] =
                             Answered([@ EXCEPT !.touched = TRUE], 500)]
          /\ running' = NoTask
       \/ /\ pipeline # None
          /\ \E fallback \in BOOLEAN :
               requests' = [requests EXCEPT ![r] =
                   [@ EXCEPT !.pc = FirstStage(requests[r].endpoint),
                             !.touched = TRUE,
                             !.left = IF requests[r].endpoint = "/cutout" /\ fallback
                                      THEN 1 ELSE 0]]
          /\ running' = RequestTask(r)
    /\ UNCHANGED <<phase, pipeline, constructions>>
    /\ UNCHANGED pipe_vars

\* face_recognition.face_locations / face_encodings return (or raise): the
\* matching follows; process then has one segmenter call per matched face.
DetectorReturns(r) ==
    /\ requests[r].pc = "detecting"
    /\ MayRun(r)
    /\ \/ /\ requests' = [requests EXCEPT ![r] = Answered(@, 500)]
          /\ running' = NoTask
       \/ /\ \E matched \in 0..MaxSegments :
               requests' = [requests EXCEPT ![r] =
                   [@ EXCEPT !.pc = "computing",
                             !.left = IF requests[r].endpoint = "/recognize"
                                      THEN matched ELSE 0]]
          /\ running' = RequestTask(r)
    /\ UNCHANGED <<phase, pipeline, constructions>>
    /\ UNCHANGED pipe_vars

\* rembg.remove(..., session=self.seg_session) returns or raises.
SegmenterReturns(r) ==
    /\ requests[r].pc = "segmenting"
    /\ MayRun(r)
    /\ \/ /\ requests' = [requests EXCEPT ![r] = Answered(@, 500)]
          /\ running' = NoTask
       \/ /\ requests' = [requests EXCEPT ![r] = [@ EXCEPT !.pc = "computing"]]
          /\ running' = RequestTask(r)
    /\ UNCHANGED <<phase, pipeline, constructions>>
    /\ UNCHANGED pipe_vars

\* The stages that use neither the detector nor the segmenter (matching,
\* compositing, encoding the answer): the next segmenter call, or the
\* handler returns its answer.
Compute(r) ==
    /\ requests[r].pc = "computing"
    /\ MayRun(r)
    /\ IF requests[r].left > 0
       THEN /\ requests' = [requests EXCEPT ![r] =
                               [@ EXCEPT !.pc = "segmenting",
                                         !.left = @ - 1]]
            /\ running' = RequestTask(r)
       ELSE /\ \E status \in {200, 500} :
                 requests' = [requests EXCEPT ![r] = Answered(@, status)]
            /\ running' = NoTask
    /\ UNCHANGED <<phase, pipeline, constructions>>
    /\ UNCHANGED pipe_vars

Lifespan == StartupBegin \/ StartupConstruct \/ StartupComplete \/ Shutdown

Handler(r) ==
    \/ Arrive(r) \/ Enter(r) \/ Resume(r)
    \/ DetectorReturns(r) \/ SegmenterReturns(r) \/ Compute(r)

NextService == Lifespan \/ \E r \in 1..MaxRequests : Handler(r)

SpecService == InitService /\ [][NextService]_vars

(***************************************************************************)
(* Vocabulary of the service claims                                        *)
(***************************************************************************)
Served == 1..MaxRequests

\* The requests whose handler is inside a call of the detector or of the
\* segmenter.
InFlight == { r \in Served : requests[r].pc \in {"detecting", "segmenting"} }

InPipeline ==
    { r \in Served : requests[r].pc \in {"detecting", "segmenting", "computing"} }

\* C13: with any number of /recognize, /recognize-fast and /cutout requests
\* being served concurrently by the one process, at most one invocation of
\* the detector or of the segmenter is in flight at any time.
C13_OneInvocationInFlight == Cardinality(InFlight) <= 1

\* A request inside the segmenter while another request, already accepted by
\* its handler, waits for its upload to be read.
C13_Witness ==
    \E r1, r2 \in Served :
        /\ r1 # r2
        /\ requests[r1].pc = "segmenting"
        /\ requests[r2].pc = "reading"

\* C14: the pipeline is constructed exactly once, in the startup phase; no
\* request reaches process, process_fast or generate_cutout before that
\* construction has completed; a request handled while pipeline is None is
\* answered 503 without touching the pipeline.
C14_ConstructedOnceBeforeUse ==
    /\ constructions <= 1
    /\ pipeline # None => (constructions = 1 /\ pipeline.built_in = "starting")
    /\ phase \in {"serving", "stopped"} => (constructions = 1 /\ pipeline # None)
    /\ \A r \in Served :
         /\ (r \in InPipeline \/ requests[r].touched) =>
               (pipeline # None /\ constructions = 1)
         /\ requests[r].saw_none =>
               /\ requests[r].pc = "done"
               /\ requests[r].status = 503
               /\ ~requests[r].touched

\* One request was handled before the startup and answered 503; another,
\* handled after it, is inside its pipeline method.
C14_Witness ==
    \E r1, r2 \in Served :
        /\ requests[r1].saw_none
        /\ requests[r1].status = 503
        /\ r2 \in InPipeline
        /\ phase = "serving"

\* C22: on each of /recognize, /recognize-fast and /cutout, a request whose
\* upload has an image content type but does not decode is answered with
\* status 400 and detail "Could not decode image"; the pipeline is not
\* invoked for it and the status is not turned into 500.
C22_Original ==
    \A r \in Served :
        requests[r].img_none =>
            /\ requests[r].pc = "done"
            /\ ~requests[r].touched
            /\ requests[r].status = 400
            /\ requests[r].detail = << "Could not decode image" >>

\* A /cutout request, accepted while the service is serving, whose image
\* did not decode: the pipeline was not invoked and the answer is 500.
C22_Witness ==
    \E r \in Served :
        /\ phase = "serving"
        /\ requests[r].endpoint = "/cutout"
        /\ requests[r].img_none
        /\ requests[r].pc = "done"
        /\ ~requests[r].touched
        /\ requests[r].status = 500
        /\ requests[r].detail
               = << "Processing error: ", 400, ": ", "Could not decode image" >>

(***************************************************************************)
(* SpecCanvas: the presentation canvas of generate_cutout                  *)
(*                                                                         *)
(* generate_cutout sizes the canvas from the shape of person_crop and      *)
(* blends the crop into the slice                                          *)
(* presentation[paste_y:paste_y+crop_h, paste_x:paste_x+crop_w].  SpecCanvas*)
(* runs these lines on every crop shape up to MaxCropH by MaxCropW.        *)
(***************************************************************************)
MaxCropH == 140

MaxCropW == 140

\* The bound i of a slice of an axis of length n: a negative bound counts
\* from the end, and a bound beyond either end is cut to it.
SliceBound(i, n) == IF i < 0 THEN Max(i + n, 0) ELSE Min(i, n)

\* len(a[start:stop]) for an axis of length n
SliceLen(start, stop, n) == Max(0, SliceBound(stop, n) - SliceBound(start, n))

\* target_h, target_w, paste_x, paste_y and the shape of region.
Canvas(crop_h, crop_w, target_h, target_w) ==
    [status |-> "ok", target_h |-> target_h, target_w |-> target_w,
     paste_x |-> PasteX(target_w, crop_w),
     paste_y |-> PasteY(target_h, crop_h),
     region_h |-> SliceLen(PasteY(target_h, crop_h),
                           PasteY(target_h, crop_h) + crop_h, target_h),
     region_w |-> SliceLen(PasteX(target_w, crop_w),
                           PasteX(target_w, crop_w) + crop_w, target_w)]

InitCanvas ==
    /\ celebrity_db = << >>
    /\ call = Idle
    /\ ret = None
    /\ heap = << >>
    /\ events = << >>
    /\ ServiceOff

CallPresentationCanvas ==
    /\ call = Idle
    /\ \E crop_h \in 1..MaxCropH, crop_w \in 1..MaxCropW :
         /\ call' = [op |-> "presentation", crop_h |-> crop_h,
                     crop_w |-> crop_w]
         /\ ret' = Canvas(crop_h, crop_w, TargetH(crop_h),
                          TargetW(crop_w, TargetH(crop_h)))
    /\ UNCHANGED <<celebrity_db, heap, events>>
    /\ UNCHANGED service_vars

NextCanvas == CallPresentationCanvas \/ Return

SpecCanvas == InitCanvas /\ [][NextCanvas]_vars

CanvasCalled == call.op = "presentation"

\* C19: in generate_cutout, for every crop of positive height and width,
\* target_h >= crop_h, target_w >= crop_w, and the paste rectangle lies
\* inside the canvas: paste_x >= 0, paste_y >= 0,
\* paste_x + crop_w <= target_w, paste_y + crop_h <= target_h; so the
\* region blended into has the shape of the crop.
C19_PasteInsideCanvas ==
    CanvasCalled =>
        /\ ret.target_h >= call.crop_h
        /\ ret.target_w >= call.crop_w
        /\ ret.paste_x >= 0
        /\ ret.paste_y >= 0
        /\ ret.paste_x + call.crop_w <= ret.target_w
        /\ ret.paste_y + call.crop_h <= ret.target_h
        /\ ret.region_h = call.crop_h
        /\ ret.region_w = call.crop_w

\* A crop wider than 0.7 of the canvas height, on a canvas whose height is
\* one of those where the double product falls short, pasted at the top
\* offset that the height of the canvas allows.
C19_Witness ==
    /\ CanvasCalled
    /\ ret.target_h \in Double07Short
    /\ call.crop_w > Times07(ret.target_h)
    /\ ret.target_w = call.crop_w
    /\ ret.paste_x = 0
    /\ ret.paste_y > 0
    /\ ret.paste_y + call.crop_h < ret.target_h


=============================================================================
